---- MODULE Spec2Model ----
(***************************************************************************)
(* Model of the chess-talker annotation scripts:                           *)
(*   pgn_to_JSON_converter.py  ("converter": game6..game20, pause on even) *)
(*   pgn_to_JSON.py            ("to_JSON":   game1..game20, no pause)      *)
(*   pgn_data_extractor.py     ("extractor": one PGN file, batched output) *)
(* The three scripts share analyze_with_stockfish_api and                  *)
(* process_game_moves_and_analyze verbatim.  The chess library, the HTTP   *)
(* library and the file system are the environment: what they return (or   *)
(* raise) is drawn nondeterministically at the call.                       *)
(***************************************************************************)
EXTENDS Integers, Sequences, FiniteSets, TLC

VARIABLES
    prog,            \* which script is running
    pgn,             \* what the games of the input share: tag set, side to move first
    pc,              \* position of the single worker
    i,               \* loop index i (converter, to_JSON) / game_counter (extractor)
    dataset,         \* history: what each read of the input returned so far
    game,            \* the game returned by chess.pgn.read_game
    game_metadata,   \* the metadata dict built from game.headers
    rest,            \* the iterator game.mainline_moves(): moves not yet taken
    board,           \* the board the moves are pushed on
    move_counter,
    move,            \* loop variable of "for move in game.mainline_moves()"
    player,
    current_fen,
    depth,           \* the depth argument of the analyze call in progress
    sent,            \* params of the GET request that is outstanding
    response,        \* what requests.get returned (or raised)
    stockfish_output,\* value returned by analyze_with_stockfish_api
    game_data,       \* list of move_data built by process_game_moves_and_analyze
    games_data,      \* extractor: list of the game records built so far
    files,           \* output files written so far: path key -> JSON content
    printed,         \* what print() wrote, in order
    slept,           \* seconds spent in time.sleep
    exc,             \* the exception that ended the run, if any
    nreq             \* number of analysis requests issued in this run

vars == << prog, pgn, pc, i, dataset, game, game_metadata, rest, board, move_counter,
           move, player, current_fen, depth, sent, response, stockfish_output,
           game_data, games_data, files, printed, slept, exc, nreq >>

----------------------------------------------------------------------------
(* Bounds of the model *)

\* the file loop is cut after MaxFiles indices; the extractor's PGN file holds
\* at most MaxFiles games
MaxFiles == 4
\* moves in one game
MaxMoves == 2
\* analysis requests in one run
MaxRequests == 2
\* requested depths tried on analyze_with_stockfish_api: -1..MaxDepth and BigDepths
MaxDepth == 17

----------------------------------------------------------------------------
(* Program constants *)

MaxAcceptedDepth == 15
DepthLimit == 16
AnalysisDepth == 15
ConverterFirst == 6
ToJsonFirst == 1
RangeStop == 21
PauseSeconds == 60

Programs == {"converter", "to_JSON", "extractor"}
Sides == {"White", "Black"}

None == [kind |-> "None"]

Min(a, b) == IF a < b THEN a ELSE b

----------------------------------------------------------------------------
(* The environment's values *)

\* the moves of the games of the dataset: a game's mainline is a prefix of Line
Line == << [from_square |-> "e2", to_square |-> "e4"],
           [from_square |-> "e7", to_square |-> "e5"],
           [from_square |-> "g1", to_square |-> "f3"],
           [from_square |-> "b8", to_square |-> "c6"] >>

MetadataKeys == {"Event", "White", "Black", "Result", "WhiteElo", "BlackElo",
                 "WhiteRatingDiff", "BlackRatingDiff", "ECO", "Opening",
                 "Termination", "Round"}

\* headers a parsed game carries: the tag roster alone, or every recognized key
Roster == {"Event", "White", "Black", "Result", "Round"}
HeaderChoices == {Roster, MetadataKeys}

Headers(present) == [k \in present |-> "hdr " \o k]

\* a game as read_game returns it, in an input whose games carry the tags
\* src.tags and start with src.turn to move.  turn is the side to move on
\* game.board(); bad is the ply whose board.push is rejected (0: none is)
GamesUpTo(src, n) ==
    UNION { { [kind |-> "game", headers |-> Headers(src.tags), turn |-> src.turn,
               moves |-> SubSeq(Line, 1, m), bad |-> b] : b \in 0..m } : m \in 0..n }

\* response bodies, as sequences of characters
Bodies == { << >>, <<" ", " ">>, <<"<", "h", ">">>, <<"{", "}">>, <<" ", "{", "}">> }

\* what requests.get does: raise, or return a response with a status and a body
Responses ==
    { [kind |-> "raised", cause |-> "ConnectionError", status_code |-> 0, text |-> << >>] }
    \cup { [kind |-> "response", cause |-> "", status_code |-> 200, text |-> b] : b \in Bodies }
    \cup { [kind |-> "response", cause |-> "", status_code |-> 500, text |-> b] :
           b \in { << >>, <<"{", "}">> } }
    \cup { [kind |-> "response", cause |-> "", status_code |-> 304, text |-> << >>] }

----------------------------------------------------------------------------
(* chess library: board and moves *)

Other(side) == IF side = "White" THEN "Black" ELSE "White"

\* game.board()
game_board(g) == [turn |-> g.turn, stack |-> << >>]

\* board.push(move)
push(b, m) == [turn |-> Other(b.turn), stack |-> Append(b.stack, m)]

\* mutant: the position is the one before the last push
fen_BeforePush(b) ==
    [position |-> SubSeq(b.stack, 1, Len(b.stack) - 1),
     active |-> IF b.turn = "White" THEN "b" ELSE "w",
     ply |-> Len(b.stack) - 1]

\* board.fen(): the position after the moves pushed, with the side to move
fen(b) == [position |-> b.stack,
           active |-> IF b.turn = "White" THEN "w" ELSE "b",
           ply |-> Len(b.stack)]

\* move.uci()
uci(m) == m.from_square \o m.to_square

\* headers.get(key, default)
get(headers, key, default) == IF key \in DOMAIN headers THEN headers[key] ELSE default

----------------------------------------------------------------------------
(* analyze_with_stockfish_api *)

\* mutant: the comparison is strict
EffectiveDepth_Strict(d) == IF d > DepthLimit THEN MaxAcceptedDepth ELSE d

\* "if depth >= 16: depth = 15"
EffectiveDepth(d) == IF d >= DepthLimit THEN MaxAcceptedDepth ELSE d

\* params = {"fen": fen, "depth": depth}
Params(f, d) == [fen |-> f, depth |-> EffectiveDepth(d)]

\* str.strip() on a body: leading and trailing whitespace removed
RECURSIVE LStrip(_)
LStrip(t) == IF t /= << >> /\ Head(t) = " " THEN LStrip(Tail(t)) ELSE t

RECURSIVE RStrip(_)
RStrip(t) == IF t /= << >> /\ t[Len(t)] = " " THEN RStrip(SubSeq(t, 1, Len(t) - 1)) ELSE t

strip(t) == RStrip(LStrip(t))

\* response.raise_for_status() raises HTTPError for a 4xx or 5xx status
RaisesForStatus(r) == r.status_code >= 400 /\ r.status_code < 600

\* response.json(): the body parses when, whitespace aside, it is an object
ParsesAsJson(t) ==
    LET s == strip(t)
    IN  Len(s) >= 2 /\ s[1] = "{" /\ s[Len(s)] = "}"

json(t) == [object |-> SubSeq(strip(t), 2, Len(strip(t)) - 1)]

\* mutant: the empty body is looked at before the status
analyze_EmptyFirst(r) ==
    IF r.kind = "raised"
    THEN [error |-> "Request failed: " \o r.cause]
    ELSE IF strip(r.text) = << >>
    THEN [error |-> "Empty response from API"]
    ELSE IF RaisesForStatus(r)
    THEN [error |-> "Request failed: " \o ToString(r.status_code) \o " Error"]
    ELSE IF ~ParsesAsJson(r.text)
    THEN [error |-> "Invalid JSON response"]
    ELSE json(r.text)

\* the value analyze_with_stockfish_api returns for what requests.get did
analyze_with_stockfish_api(r) ==
    IF r.kind = "raised"
    THEN [error |-> "Request failed: " \o r.cause]
    ELSE IF RaisesForStatus(r)
    THEN [error |-> "Request failed: " \o ToString(r.status_code) \o " Error"]
    ELSE IF strip(r.text) = << >>
    THEN [error |-> "Empty response from API"]
    ELSE IF ~ParsesAsJson(r.text)
    THEN [error |-> "Invalid JSON response"]
    ELSE json(r.text)

----------------------------------------------------------------------------
(* process_game_moves_and_analyze *)

\* mutant: the parity is taken of a 0-based counter
Player_ZeroBased(counter) == IF counter % 2 = 0 THEN "White" ELSE "Black"

\* player = "White" if move_counter % 2 == 1 else "Black"
Player(counter) == IF counter % 2 = 1 THEN "White" ELSE "Black"

\* mutant: the move number is the counter before its increment
MoveData_ZeroBased(counter, pl, m, f, out) ==
    [MoveNumber |-> counter - 1, Player |-> pl, Move |-> uci(m), FEN |-> f,
     StockfishAnalysis |-> out]

\* the move_data dict
MoveData(counter, pl, m, f, out) ==
    [MoveNumber |-> counter, Player |-> pl, Move |-> uci(m), FEN |-> f,
     StockfishAnalysis |-> out]

\* mutant: a move whose analysis failed is left out
AppendMove_SkipErrors(data, md) ==
    IF "error" \in DOMAIN md.StockfishAnalysis THEN data ELSE Append(data, md)

\* game_data.append(move_data)
AppendMove(data, md) == Append(data, md)

----------------------------------------------------------------------------
(* parse_pgn_and_generate_json *)

FirstIndex(p) == IF p = "converter" THEN ConverterFirst ELSE ToJsonFirst

\* range(first, 21), cut after MaxFiles indices
LastIndex(p) == Min(RangeStop - 1, FirstIndex(p) + MaxFiles - 1)

\* the default each script passes to game.headers.get for a key
Placeholder(p, k) ==
    IF p = "converter" THEN "?"
    ELSE IF k \in {"White", "Black"} THEN "Unknown Player"
    ELSE IF k \in {"WhiteElo", "BlackElo"} THEN "Unknown Elo"
    ELSE IF k \in {"WhiteRatingDiff", "BlackRatingDiff"} THEN "Unknown Diff"
    ELSE "Unknown " \o k

\* the keys each script copies into game_metadata
KeysOf(p) == IF p = "extractor" THEN {"Event", "White", "Black", "Result"}
             ELSE MetadataKeys

\* mutant: a key whose header is absent is left out
Metadata_PresentOnly(p, headers) ==
    [k \in KeysOf(p) \cap DOMAIN headers |-> headers[k]]

Metadata(p, headers) == [k \in KeysOf(p) |-> get(headers, k, Placeholder(p, k))]

\* game_data = {"Metadata": game_metadata, "Moves": game_moves_data}
GameRecord(meta, moves) == [Metadata |-> meta, Moves |-> moves]

\* mutant: the pause follows the odd indices
PauseAfter_Odd(p, idx) == p = "converter" /\ idx % 2 = 1

\* "if i % 2 == 0" (converter only)
PauseAfter(p, idx) == p = "converter" /\ idx % 2 = 0

\* mutant: the output path is built from the next index
WriteFile_NextIndex(fs, k, content) ==
    [x \in DOMAIN fs \cup {k + 1} |-> IF x = k + 1 THEN content ELSE fs[x]]

\* mutant: every game is written to the same output path
WriteFile_SamePath(fs, k, content) ==
    [x \in DOMAIN fs \cup {ConverterFirst} |-> IF x = ConverterFirst THEN content ELSE fs[x]]

\* json.dump to the output path of index k (extractor: the one output file, key 0)
WriteFile(fs, k, content) ==
    [x \in DOMAIN fs \cup {k} |-> IF x = k THEN content ELSE fs[x]]

\* mutant: the record is put in front
AppendGame_Prepend(list, rec) == << rec >> \o list

\* games_data.append(game_data)
AppendGame(list, rec) == Append(list, rec)

Msg(text, n) == [msg |-> text, arg |-> n]

----------------------------------------------------------------------------
(* State machine *)

\* the locals of process_game_moves_and_analyze and of the analyze call
locals == << game, game_metadata, rest, board, move_counter, move, player,
             current_fen, depth, sent, response, stockfish_output, game_data >>

NoLocals ==
    /\ game = None /\ game_metadata = None /\ rest = << >> /\ board = None
    /\ move_counter = 0 /\ move = None /\ player = "" /\ current_fen = None
    /\ depth = 0 /\ sent = None /\ response = None /\ stockfish_output = None
    /\ game_data = << >>

Init ==
    /\ prog \in Programs
    /\ pgn \in [tags : HeaderChoices, turn : Sides]
    /\ pc = IF prog = "extractor" THEN "start" ELSE "loop"
    /\ i = IF prog = "extractor" THEN 0 ELSE FirstIndex(prog)
    /\ dataset = << >>
    /\ NoLocals
    /\ games_data = << >>
    /\ files = << >>
    /\ printed = << >>
    /\ slept = 0
    /\ exc = "none"
    /\ nreq = 0

\* an uncaught exception ends the run
Raise(e) ==
    /\ pc' = "crashed"
    /\ exc' = e

\* games the input may still hold, the run's request budget considered
NextGames == GamesUpTo(pgn, Min(MaxMoves, MaxRequests - nreq))

\* game_metadata = {...}; then process_game_moves_and_analyze(game) is entered:
\* game_data = [], board = game.board(), move_counter = 0
EnterGame(g) ==
    /\ game' = g
    /\ game_metadata' = Metadata(prog, g.headers)
    /\ game_data' = << >>
    /\ board' = game_board(g)
    /\ move_counter' = 0
    /\ rest' = g.moves
    /\ pc' = "moves"
    /\ UNCHANGED << move, player, current_fen, depth, sent, response, stockfish_output >>

\* converter, to_JSON: one turn of "for i in range(..)" up to the game being read
ReadGameFile ==
    /\ prog \in {"converter", "to_JSON"}
    /\ pc = "loop"
    /\ i <= LastIndex(prog)
    /\ \E c \in {[kind |-> "missing"], [kind |-> "empty"]} \cup NextGames :
          /\ dataset' = Append(dataset, c)
          /\ \/ /\ c.kind = "missing"            \* open() raises
                /\ Raise("FileNotFoundError")
                /\ UNCHANGED << i, printed, locals >>
             \/ /\ c.kind = "empty"              \* read_game returns None
                /\ printed' = Append(printed, Msg("Skipping", i))
                /\ i' = i + 1
                /\ UNCHANGED << pc, exc, locals >>
             \/ /\ c.kind = "game"
                /\ EnterGame(c)
                /\ UNCHANGED << i, printed, exc >>
    /\ UNCHANGED << prog, pgn, games_data, files, slept, nreq >>

\* converter, to_JSON: range exhausted
LoopExit ==
    /\ prog \in {"converter", "to_JSON"}
    /\ pc = "loop"
    /\ i > LastIndex(prog)
    /\ pc' = "done"
    /\ UNCHANGED << prog, pgn, i, dataset, locals, games_data, files, printed, slept, exc, nreq >>

\* extractor: "with open(pgn_file_path, 'r')"
OpenPgn ==
    /\ prog = "extractor"
    /\ pc = "start"
    /\ \/ /\ Raise("FileNotFoundError")
          /\ dataset' = Append(dataset, [kind |-> "missing"])
       \/ /\ pc' = "loop"
          /\ UNCHANGED << exc, dataset >>
    /\ UNCHANGED << prog, pgn, i, locals, games_data, files, printed, slept, nreq >>

\* extractor: one turn of "while True" up to the game being read
ReadNextGame ==
    /\ prog = "extractor"
    /\ pc = "loop"
    /\ \/ \* read_game returns None: break, dump games_data
          /\ printed' = printed \o << Msg("End of PGN file reached", 0),
                                      Msg("All games saved", 0) >>
          /\ files' = WriteFile(files, 0, games_data)
          /\ pc' = "done"
          /\ UNCHANGED << i, dataset, locals >>
       \/ /\ i < MaxFiles
          /\ \E c \in NextGames :
                /\ dataset' = Append(dataset, c)
                /\ EnterGame(c)
          /\ i' = i + 1
          /\ printed' = Append(printed, Msg("Analyzing Game", i + 1))
          /\ UNCHANGED files
    /\ UNCHANGED << prog, pgn, games_data, slept, exc, nreq >>

\* one turn of "for move in game.mainline_moves()" up to the GET request
PushMove ==
    /\ prog \in Programs
    /\ pc = "moves"
    /\ rest /= << >>
    /\ \/ /\ game.bad = Len(game.moves) - Len(rest) + 1   \* board.push raises
          /\ Raise("IllegalMoveError")
          /\ UNCHANGED << locals, nreq >>
       \/ /\ game.bad /= Len(game.moves) - Len(rest) + 1
          /\ move' = Head(rest)
          /\ rest' = Tail(rest)
          /\ board' = push(board, Head(rest))
          /\ move_counter' = move_counter + 1
          /\ player' = Player(move_counter + 1)
          /\ current_fen' = fen(push(board, Head(rest)))
          /\ depth' = AnalysisDepth
          /\ sent' = Params(fen(push(board, Head(rest))), AnalysisDepth)
          /\ nreq' = nreq + 1
          /\ pc' = "request"
          /\ UNCHANGED << exc, game, game_metadata, response, stockfish_output, game_data >>
    /\ UNCHANGED << prog, pgn, i, dataset, games_data, files, printed, slept >>

\* requests.get returns or raises
Receive ==
    /\ pc = "request"
    /\ \E r \in Responses : response' = r
    /\ pc' = "respond"
    /\ UNCHANGED << prog, pgn, i, dataset, game, game_metadata, rest, board, move_counter,
                    move, player, current_fen, depth, sent, stockfish_output, game_data,
                    games_data, files, printed, slept, exc, nreq >>

\* analyze_with_stockfish_api returns; move_data is built and appended
RecordMove ==
    /\ prog \in Programs
    /\ pc = "respond"
    /\ stockfish_output' = analyze_with_stockfish_api(response)
    /\ game_data' = AppendMove(game_data,
                        MoveData(move_counter, player, move, current_fen,
                                 analyze_with_stockfish_api(response)))
    /\ response' = None
    /\ sent' = None
    /\ pc' = "moves"
    /\ UNCHANGED << prog, pgn, i, dataset, game, game_metadata, rest, board, move_counter,
                    move, player, current_fen, depth, games_data, files, printed,
                    slept, exc, nreq >>

\* process_game_moves_and_analyze returns: its locals are gone
DropLocals ==
    /\ game' = None /\ game_metadata' = None /\ rest' = << >> /\ board' = None
    /\ move_counter' = 0 /\ move' = None /\ player' = "" /\ current_fen' = None
    /\ depth' = 0 /\ sent' = None /\ response' = None /\ stockfish_output' = None
    /\ game_data' = << >>

\* the mainline is exhausted: the record is assembled and saved (converter,
\* to_JSON) or appended to games_data (extractor)
FinishGame ==
    /\ prog \in Programs
    /\ pc = "moves"
    /\ rest = << >>
    /\ \/ /\ prog = "extractor"
          /\ games_data' = AppendGame(games_data, GameRecord(game_metadata, game_data))
          /\ pc' = "loop"
          /\ UNCHANGED << i, files, printed >>
       \/ /\ prog /= "extractor"
          /\ files' = WriteFile(files, i, GameRecord(game_metadata, game_data))
          /\ \/ /\ PauseAfter(prog, i)
                /\ printed' = printed \o << Msg("analyzed and saved", i),
                                            Msg("Pausing for 60 seconds", i) >>
                /\ pc' = "sleep"
                /\ i' = i
             \/ /\ ~PauseAfter(prog, i)
                /\ printed' = Append(printed, Msg("analyzed and saved", i))
                /\ pc' = "loop"
                /\ i' = i + 1
          /\ UNCHANGED games_data
    /\ DropLocals
    /\ UNCHANGED << prog, pgn, dataset, slept, exc, nreq >>

\* time.sleep(60) returns
WakeUp ==
    /\ pc = "sleep"
    /\ slept' = slept + PauseSeconds
    /\ i' = i + 1
    /\ pc' = "loop"
    /\ UNCHANGED << prog, pgn, dataset, locals, games_data, files, printed, exc, nreq >>

\* a shutdown signal while the worker is blocked in requests.get or time.sleep:
\* KeyboardInterrupt is no RequestException and nothing catches it
Interrupt ==
    /\ prog \in Programs
    /\ pc \in {"request", "sleep"}
    /\ Raise("KeyboardInterrupt")
    /\ UNCHANGED << prog, pgn, i, dataset, locals, games_data, files, printed, slept, nreq >>

Next ==
    \/ ReadGameFile
    \/ LoopExit
    \/ OpenPgn
    \/ ReadNextGame
    \/ PushMove
    \/ Receive
    \/ RecordMove
    \/ FinishGame
    \/ WakeUp
    \/ Interrupt

Spec == Init /\ [][Next]_vars

----------------------------------------------------------------------------
(* analyze_with_stockfish_api called on its own, for any requested depth *)

BigDepths == {20, 1000}
Depths == (-1 .. MaxDepth) \cup BigDepths

RECURSIVE BoardAfter(_, _)
BoardAfter(g, n) == IF n = 0 THEN game_board(g) ELSE push(BoardAfter(g, n - 1), g.moves[n])

InitAnalyze ==
    /\ prog = "analyze"
    /\ pgn \in [tags : {Roster}, turn : Sides]
    /\ pc = "call"
    /\ i = 0
    /\ dataset = << >>
    /\ game = None /\ game_metadata = None /\ rest = << >> /\ board = None
    /\ move_counter = 0 /\ move = None /\ player = ""
    /\ \E g \in GamesUpTo(pgn, MaxMoves) :
          current_fen = fen(BoardAfter(g, Len(g.moves)))
    /\ depth \in Depths
    /\ sent = None /\ response = None /\ stockfish_output = None
    /\ game_data = << >>
    /\ games_data = << >>
    /\ files = << >>
    /\ printed = << >>
    /\ slept = 0
    /\ exc = "none"
    /\ nreq = 0

\* the function is entered: the depth is clamped and the GET request issued
CallAnalyze ==
    /\ prog = "analyze"
    /\ pc = "call"
    /\ sent' = Params(current_fen, depth)
    /\ nreq' = nreq + 1
    /\ pc' = "request"
    /\ UNCHANGED << prog, pgn, i, dataset, game, game_metadata, rest, board, move_counter,
                    move, player, current_fen, depth, response, stockfish_output,
                    game_data, games_data, files, printed, slept, exc >>

\* the function returns
ReturnAnalysis ==
    /\ prog = "analyze"
    /\ pc = "respond"
    /\ stockfish_output' = analyze_with_stockfish_api(response)
    /\ pc' = "returned"
    /\ UNCHANGED << prog, pgn, i, dataset, game, game_metadata, rest, board, move_counter,
                    move, player, current_fen, depth, sent, response, game_data,
                    games_data, files, printed, slept, exc, nreq >>

NextAnalyze ==
    \/ CallAnalyze
    \/ Receive
    \/ ReturnAnalysis

SpecAnalyze == InitAnalyze /\ [][NextAnalyze]_vars

----------------------------------------------------------------------------
(* Vocabulary of the properties *)

Elems(seq) == { seq[k] : k \in DOMAIN seq }

Last(seq) == seq[Len(seq)]

\* the game records built so far that left process/assemble: written to their
\* file (converter, to_JSON) or appended to games_data (extractor)
CompleteRecords ==
    IF prog = "extractor" THEN Elems(games_data)
    ELSE { files[x] : x \in DOMAIN files }

\* the game records that are in the output files
PersistedRecords ==
    IF prog = "extractor"
    THEN (IF 0 \in DOMAIN files THEN Elems(files[0]) ELSE {})
    ELSE { files[x] : x \in DOMAIN files }

\* every list of move records in the state
MoveLists == {game_data} \cup { r.Moves : r \in CompleteRecords \cup PersistedRecords }

IsError(a) == "error" \in DOMAIN a

\* all the moves of the game have been taken: process_game_moves_and_analyze returns
Returning == pc = "moves" /\ rest = << >>

----------------------------------------------------------------------------
(* Properties *)

\* C1: when all N moves of a game applied, whatever the analysis outcomes were,
\* process_game_moves_and_analyze returns exactly N move records whose
\* 'Move Number' fields are 1, 2, ..., N in that order; the records handed on
\* are numbered the same way.
C1_MoveNumbers ==
    /\ Returning =>
          /\ Len(game_data) = Len(game.moves)
          /\ \A k \in 1..Len(game_data) : game_data[k].MoveNumber = k
    /\ \A l \in MoveLists : \A k \in 1..Len(l) : l[k].MoveNumber = k

C1_Witness ==
    /\ Returning
    /\ Len(game.moves) = MaxMoves
    /\ IsError(game_data[1].StockfishAnalysis)
    /\ ~IsError(game_data[MaxMoves].StockfishAnalysis)

\* C5: for every requested depth d the request carries depth 15 when d >= 16
\* and d itself when d < 16, so no request carries a depth above 15.
C5_DepthClamp ==
    sent /= None =>
        /\ depth >= 16 => sent.depth = 15
        /\ depth < 16 => sent.depth = depth
        /\ sent.depth <= 15

C5_Witness ==
    /\ sent /= None
    /\ depth = 16
    /\ sent.depth = 15

InputOf(x) == IF prog = "extractor" THEN dataset[x] ELSE dataset[x - FirstIndex(prog) + 1]

\* record r is the record of game g: g's moves in ply order, g's header values
IsRecordOf(r, g) ==
    /\ g.kind = "game"
    /\ Len(r.Moves) = Len(g.moves)
    /\ \A k \in 1..Len(r.Moves) :
          /\ r.Moves[k].Move = g.moves[k].from_square \o g.moves[k].to_square
          /\ r.Moves[k].FEN.ply = k
    /\ \A key \in DOMAIN r.Metadata \cap DOMAIN g.headers : r.Metadata[key] = g.headers[key]

Blank(t) == \A k \in DOMAIN t : t[k] = " "

HttpError(r) == r.kind = "response" /\ r.status_code >= 400 /\ r.status_code <= 599

Non2xx(r) == r.kind = "response" /\ ~(r.status_code >= 200 /\ r.status_code <= 299)

TransportError(r) ==
    [error |-> "Request failed: " \o
               (IF r.kind = "raised" THEN r.cause ELSE ToString(r.status_code) \o " Error")]

\* the outcome the precedence (1) transport failure, (2) empty body, (3) body
\* that is no JSON, (4) parsed payload gives, transport telling case (1)
OutcomeByPrecedence(r, transport) ==
    IF transport THEN TransportError(r)
    ELSE IF Blank(r.text) THEN [error |-> "Empty response from API"]
    ELSE IF ~ParsesAsJson(r.text) THEN [error |-> "Invalid JSON response"]
    ELSE json(r.text)

\* C2 (as claimed): when the move at some ply of a game is rejected, the game
\* is aborted with a diagnostic, none of its move records is persisted and the
\* run goes on with the later games.
C2_IllegalMoveIsolated ==
    exc = "IllegalMoveError" =>
        /\ pc /= "crashed"
        /\ \E m \in Elems(printed) : m.msg = "Aborted"
        /\ \A r \in PersistedRecords : ~IsRecordOf(r, game)

\* C3 (as claimed): a missing or empty input game is skipped with a diagnostic
\* and never ends the run.
C3_MissingOrEmptySkipped ==
    \A k \in DOMAIN dataset :
        dataset[k].kind \in {"missing", "empty"} =>
            /\ pc /= "crashed"
            /\ \E m \in Elems(printed) : m.msg = "Skipping"

\* the step that follows a response: the move record is appended, with the
\* error payload of the failure's kind when the request failed
C4_RecordStep ==
    (prog \in Programs /\ pc = "respond") =>
        /\ pc' = "moves"
        /\ exc' = "none"
        /\ rest' = rest
        /\ Len(game_data') = Len(game_data) + 1
        /\ SubSeq(game_data', 1, Len(game_data)) = game_data
        /\ ((response.kind = "raised" \/ HttpError(response)) =>
               (Last(game_data').StockfishAnalysis = TransportError(response)))
        /\ ((~(response.kind = "raised" \/ HttpError(response)) /\ Blank(response.text)) =>
               (Last(game_data').StockfishAnalysis = [error |-> "Empty response from API"]))
        /\ ((~(response.kind = "raised" \/ HttpError(response)) /\ ~Blank(response.text)
                 /\ ~ParsesAsJson(response.text)) =>
               (Last(game_data').StockfishAnalysis = [error |-> "Invalid JSON response"]))

\* the step that ends a game: the record with all N move records is handed on
C4_ReturnStep ==
    Returning =>
        /\ Len(game_data) = Len(game.moves)
        /\ GameRecord(game_metadata, game_data) \in CompleteRecords'
        /\ (prog /= "extractor" =>
               (GameRecord(game_metadata, game_data) \in PersistedRecords'))
        /\ exc' = "none"

\* C4: a failed analysis request never fails the game: the move record of the
\* ply is appended with the error payload of the failure's kind, the game goes
\* on, and at its end the record with all N move records is handed on and
\* persisted.
C4_FailedAnalysisRecorded ==
    /\ [][C4_RecordStep /\ C4_ReturnStep]_vars
    /\ [](prog = "extractor" /\ pc = "done" => PersistedRecords = CompleteRecords)

C4_Witness ==
    \E r \in PersistedRecords :
        /\ Len(r.Moves) = MaxMoves
        /\ \A k \in 1..Len(r.Moves) :
              r.Moves[k].StockfishAnalysis = [error |-> "Request failed: ConnectionError"]

\* C6 (as claimed): the analysis call returns the outcome of the precedence with
\* every non-2xx status counted as a transport failure.
C6_Non2xxIsTransportFailure ==
    pc = "returned" =>
        stockfish_output =
            OutcomeByPrecedence(response, response.kind = "raised" \/ Non2xx(response))

\* C6 (amended): the analysis call never raises and returns the outcome of the
\* precedence with a raised request exception or a 4xx/5xx status as the
\* transport failure; any other status is judged by its body.
C6_OutcomePrecedence ==
    /\ exc = "none"
    /\ pc = "returned" =>
          stockfish_output =
              OutcomeByPrecedence(response, response.kind = "raised" \/ HttpError(response))

C6_Witness ==
    /\ pc = "returned"
    /\ response.kind = "response"
    /\ response.status_code = 500
    /\ ParsesAsJson(response.text)
    /\ stockfish_output = [error |-> "Request failed: 500 Error"]

\* number of games that reached Complete
CompletedCount == Cardinality(CompleteRecords)

\* a game has just been completed and the worker went on without pausing
WentOnAfterCompletion ==
    /\ pc = "loop"
    /\ printed /= << >>
    /\ Last(printed).msg = "analyzed and saved"

\* C7 (as claimed): the run pauses after a completed game exactly when the
\* number of completed games is a positive even number.
C7_PauseOnEvenCompletedCount ==
    /\ pc = "sleep" => (CompletedCount > 0 /\ CompletedCount % 2 = 0)
    /\ WentOnAfterCompletion => CompletedCount % 2 = 1

\* C8: game records are handed on in input order (the record of the x-th input
\* is at output position x) and each holds its game's moves in ply order; the
\* extractor's output file is its list of records, unchanged.
C8_InputOrder ==
    /\ prog /= "extractor" => \A x \in DOMAIN files : IsRecordOf(files[x], InputOf(x))
    /\ prog = "extractor" =>
          /\ \A x \in DOMAIN games_data : IsRecordOf(games_data[x], InputOf(x))
          /\ 0 \in DOMAIN files => files[0] = games_data

C8_Witness ==
    /\ prog = "extractor"
    /\ pc = "done"
    /\ Len(files[0]) >= 2
    /\ Len(files[0][1].Moves) = 0
    /\ Len(files[0][2].Moves) = MaxMoves

\* C9 (as claimed): after a shutdown signal during a request or a pause every
\* game record that was complete is in the output and the game in progress is
\* reported as incomplete.
C9_ShutdownKeepsCompleted ==
    exc = "KeyboardInterrupt" =>
        /\ CompleteRecords \subseteq PersistedRecords
        /\ game /= None => \E m \in Elems(printed) : m.msg = "Incomplete"

\* C11 (as claimed): the side recorded for ply 1 is the side that moves first in
\* the game (the side to move on its initial board), and the side recorded for
\* ply k+1 differs from the side recorded for ply k.
C11_FirstMoverRecorded ==
    /\ (game /= None /\ Len(game_data) >= 1) => game_data[1].Player = game.turn
    /\ \A l \in MoveLists : \A k \in 1..(Len(l) - 1) : l[k + 1].Player /= l[k].Player

----------------------------------------------------------------------------
(* The status of the input games, read off the state *)

\* input positions: the x-th file of the loop (converter, to_JSON), the x-th
\* game of the PGN file (extractor)
Positions == 1..MaxFiles

\* the record of the x-th input has been handed on
HasRecord(x) ==
    IF prog = "extractor" THEN x <= Len(games_data)
    ELSE (FirstIndex(prog) + x - 1) \in DOMAIN files

Terminal == {"Complete", "Skipped", "Aborted"}

\* Pending: not obtained (not read yet, or its file is absent); Skipped: read as
\* empty; Replaying: in the move loop; Analyzing: a request is outstanding or
\* its response is being turned into a move record; Complete: record handed
\* on; Aborted: a push of the game was rejected
Status(x) ==
    IF x > Len(dataset) THEN "Pending"
    ELSE IF dataset[x].kind = "missing" THEN "Pending"
    ELSE IF dataset[x].kind = "empty" THEN "Skipped"
    ELSE IF HasRecord(x) THEN "Complete"
    ELSE IF exc = "IllegalMoveError" THEN "Aborted"
    ELSE IF pc = "moves" THEN "Replaying"
    ELSE "Analyzing"

CountOf(st) == Cardinality({ x \in Positions : Status(x) = st })

\* C12 (as claimed): unless a shutdown signal arrives the run does not stop
\* before the last input game, and when it has ended every input game is
\* Complete, Skipped or Aborted and the counts of the three, which add up to
\* the number of input games, have been reported.
C12_TerminatesWithCounts ==
    /\ pc = "crashed" => exc = "KeyboardInterrupt"
    /\ pc = "done" =>
          /\ \A x \in 1..Len(dataset) : Status(x) \in Terminal
          /\ CountOf("Complete") + CountOf("Skipped") + CountOf("Aborted") = Len(dataset)
          /\ \E m \in Elems(printed) : m.msg = "counts"

\* the exit status of the script: "__main__" calls parse_pgn_and_generate_json
\* and never calls sys.exit, so the status is 0 unless an exception ended the run
ExitStatus == IF pc = "crashed" THEN 1 ELSE 0

\* the x-th input game failed: it was skipped as empty, its file was absent, or
\* one of its moves was rejected
GameFailed(x) ==
    \/ Status(x) \in {"Aborted", "Skipped"}
    \/ (x <= Len(dataset) /\ dataset[x].kind = "missing")

\* C13 (as claimed): a run ends with a non-success status if and only if at
\* least one input game ended Aborted or Skipped.
C13_ExitStatusReflectsFailures ==
    (pc = "done" \/ (pc = "crashed" /\ exc /= "KeyboardInterrupt")) =>
        (ExitStatus /= 0 <=> \E x \in Positions : GameFailed(x))

\* the record handed on for the x-th input
RecordAt(x) ==
    IF prog = "extractor" THEN games_data[x] ELSE files[FirstIndex(prog) + x - 1]

TwelveKeys == {"Event", "White", "Black", "Result", "WhiteElo", "BlackElo",
               "WhiteRatingDiff", "BlackRatingDiff", "ECO", "Opening",
               "Termination", "Round"}

FourKeys == {"Event", "White", "Black", "Result"}

\* the placeholder each script configures for a key
ConfiguredDefault(k) ==
    IF prog = "converter" THEN "?"
    ELSE CASE k = "Event" -> "Unknown Event"
           [] k = "White" -> "Unknown Player"
           [] k = "Black" -> "Unknown Player"
           [] k = "Result" -> "Unknown Result"
           [] k = "WhiteElo" -> "Unknown Elo"
           [] k = "BlackElo" -> "Unknown Elo"
           [] k = "WhiteRatingDiff" -> "Unknown Diff"
           [] k = "BlackRatingDiff" -> "Unknown Diff"
           [] k = "ECO" -> "Unknown ECO"
           [] k = "Opening" -> "Unknown Opening"
           [] k = "Termination" -> "Unknown Termination"
           [] k = "Round" -> "Unknown Round"

\* every key of the record's metadata has the game's header value when the
\* header is present and the configured placeholder when it is absent
ValuesDefaulted(r, g) ==
    \A k \in DOMAIN r.Metadata :
        r.Metadata[k] = IF k \in DOMAIN g.headers THEN g.headers[k] ELSE ConfiguredDefault(k)

RECURSIVE RecordedMoves(_)
RecordedMoves(n) ==
    IF n = 0 THEN 0
    ELSE RecordedMoves(n - 1) + (IF HasRecord(n) THEN Len(RecordAt(n).Moves) ELSE 0)

\* C16: a game with N moves that completes gets exactly N analysis requests,
\* each with depth 15; the k-th carries the position after ply k and is issued
\* only when the results of requests 1..k-1 are recorded; no request is
\* outstanding while the next move is taken, and no request is repeated: the
\* requests of the run are as many as the move records built.
C16_OneRequestPerPly ==
    /\ nreq = RecordedMoves(MaxFiles) + move_counter
    /\ pc \in {"request", "respond"} =>
          /\ sent.depth = 15
          /\ sent.fen.position = SubSeq(game.moves, 1, move_counter)
          /\ sent.fen = current_fen
          /\ Len(game_data) = move_counter - 1
    /\ pc = "moves" => (sent = None /\ response = None /\ Len(game_data) = move_counter)
    /\ Returning => move_counter = Len(game.moves)

C16_Witness ==
    /\ Returning
    /\ Len(game.moves) = MaxMoves
    /\ nreq = MaxMoves
    /\ \A k \in 1..Len(game_data) : IsError(game_data[k].StockfishAnalysis)

\* the status changes the claim allows
ClaimedEdges ==
    { <<"Pending", "Replaying">>, <<"Replaying", "Analyzing">>, <<"Analyzing", "Complete">>,
      <<"Pending", "Skipped">>, <<"Pending", "Aborted">> }

\* the status changes of the code: replay and analysis take turns, one ply at
\* a time, and the game ends from the move loop
InterleavedEdges ==
    { <<"Pending", "Replaying">>, <<"Replaying", "Analyzing">>, <<"Analyzing", "Replaying">>,
      <<"Replaying", "Complete">>, <<"Replaying", "Aborted">>, <<"Pending", "Skipped">> }

\* in this step every game keeps its status or follows one of the edges, and a
\* game leaves Pending only when every earlier input game is terminal
StatusStep(edges) ==
    \A x \in Positions :
        /\ Status(x)' = Status(x) \/ <<Status(x), Status(x)'>> \in edges
        /\ (Status(x) = "Pending" /\ Status(x)' /= "Pending") =>
              \A y \in 1..(x - 1) : Status(y) \in Terminal

\* C17 (as claimed): a game's status changes only along Pending -> Replaying ->
\* Analyzing -> Complete, Pending -> Skipped or Pending -> Aborted; terminal
\* statuses are never left; no game leaves Pending while an earlier one is
\* non-terminal.
C17_ClaimedStatusPath == [][StatusStep(ClaimedEdges)]_vars

\* C17 (amended): a game's status changes only along Pending -> Replaying,
\* Replaying -> Analyzing and back Analyzing -> Replaying once per ply,
\* Replaying -> Complete, Replaying -> Aborted, or Pending -> Skipped;
\* Complete, Skipped and Aborted are never left; no game leaves Pending while
\* an earlier input game is non-terminal.
C17_StatusPath == [][StatusStep(InterleavedEdges)]_vars

C17_Witness ==
    /\ Cardinality({ x \in Positions : Status(x) = "Complete" }) >= 1
    /\ \E x \in Positions : Status(x) = "Skipped"
    /\ \E x \in Positions : x >= 3 /\ Status(x) = "Analyzing" /\ move_counter = MaxMoves


\* what this step hands to the output: the file written (converter, to_JSON),
\* the element appended to games_data (extractor)
HandsOver ==
    IF prog = "extractor" THEN games_data' /= games_data ELSE files' /= files

HandedRecord ==
    IF prog = "extractor" THEN Last(games_data') ELSE files'[i]

\* the game in hand is replayed to its last ply and every ply has its record
FullyAnalyzed ==
    /\ Returning
    /\ move_counter = Len(game.moves)
    /\ Len(game_data) = Len(game.moves)
    /\ \A k \in 1..Len(game_data) :
          /\ game_data[k].MoveNumber = k
          /\ game_data[k].Move = uci(game.moves[k])
          /\ game_data[k].StockfishAnalysis /= None

\* a step hands over only the record of the fully analysed game in hand
C18_HandOverStep ==
    HandsOver =>
        (/\ FullyAnalyzed
         /\ IF prog = "extractor"
            THEN Len(games_data') = Len(games_data) + 1
            ELSE DOMAIN files' = DOMAIN files \cup {i}
         /\ HandedRecord = GameRecord(Metadata(prog, game.headers), game_data))

\* a step leaves every record already handed over as it is
C18_FrameStep ==
    /\ \A k \in DOMAIN files : k \in DOMAIN files' /\ files'[k] = files[k]
    /\ Len(games_data') >= Len(games_data)
    /\ \A k \in 1..Len(games_data) : games_data'[k] = games_data[k]
    /\ (prog = "extractor" /\ files' /= files) => (files'[0] = games_data /\ pc' = "done")

\* C18: a game record is handed to the output only after all N plies of its
\* game have been replayed and each has an analysis result recorded; once
\* handed over, no later step (later games, pauses, termination) changes its
\* metadata or its move records.
C18_RecordImmutable == [][C18_HandOverStep /\ C18_FrameStep]_vars

C18_Witness ==
    /\ prog = "converter"
    /\ pc = "crashed" /\ exc = "KeyboardInterrupt"
    /\ slept >= PauseSeconds
    /\ DOMAIN files = {ConverterFirst, ConverterFirst + 1, ConverterFirst + 2}
    /\ Len(files[ConverterFirst].Moves) = MaxMoves
    /\ files[ConverterFirst].Metadata = Metadata(prog, dataset[1].headers)


\* the pause after game k was started: "Pausing for 60 seconds..." was printed
\* in the loop turn of index k
Paused(k) == Msg("Pausing for 60 seconds", k) \in Elems(printed)

\* the loop turn of index k ran to its last statement before the pause
Passed(k) == k < i \/ (k = i /\ k \in DOMAIN files)

\* the input of index k of the converter
FileOf(k) == dataset[k - ConverterFirst + 1]

\* the pause message of index k directly follows the "saved" message of k
PausedAfterSave(k) ==
    \E n \in 1..(Len(printed) - 1) :
        /\ printed[n] = Msg("analyzed and saved", k)
        /\ printed[n + 1] = Msg("Pausing for 60 seconds", k)

-----------------------------------------------------------------------------
(* csv_file_generator.py: extract_game_details *)

CsvFirst == 1
CsvRangeStop == 21
CsvLast == Min(CsvRangeStop - 1, CsvFirst + MaxFiles - 1)

\* values of the Site header, as sequences of characters
Sites == { <<"?">>, <<" ">>, <<"a", " ", "b">> }

\* what datasets/game{i}.pgn may be: absent, present but open() or read_game
\* raises, present and empty (read_game returns None), or a game.  A parsed
\* game always carries Site, which the tag roster defaults to "?".
CsvFiles ==
    { [kind |-> "missing"], [kind |-> "locked"], [kind |-> "empty"] } \cup
    { [kind |-> "game", headers |-> Headers(pgn.tags), site |-> s] : s \in Sites }

\* os.path.exists(pgn_filename)
Exists(c) == c.kind /= "missing"

\* the try block raises: open() or read_game raises, or game is None and
\* game.headers raises AttributeError
ReadRaises(c) == c.kind \in {"locked", "empty"}

\* game.headers.get(k, default)
HeaderGet(headers, k, default) == IF k \in DOMAIN headers THEN headers[k] ELSE default

\* site.replace(' ', '+')
Replace(s) == [n \in DOMAIN s |-> IF s[n] = " " THEN "+" ELSE s[n]]

HeaderRow == << "gameNumber", "game heading", "discussion", "link to game" >>

\* [game_number, game_heading, discussion, link_to_game]
Row(idx, g) ==
    << "game" \o ToString(idx),
       HeaderGet(g.headers, "White", "N/A") \o " vs. " \o HeaderGet(g.headers, "Black", "N/A")
         \o " (" \o HeaderGet(g.headers, "Event", "N/A") \o ")",
       "Result: " \o HeaderGet(g.headers, "Result", "N/A")
         \o ". White's Elo: " \o HeaderGet(g.headers, "WhiteElo", "N/A")
         \o " (Change: " \o HeaderGet(g.headers, "WhiteRatingDiff", "N/A")
         \o "), Black's Elo: " \o HeaderGet(g.headers, "BlackElo", "N/A")
         \o " (Change: " \o HeaderGet(g.headers, "BlackRatingDiff", "N/A")
         \o "). ECO: " \o HeaderGet(g.headers, "ECO", "N/A")
         \o ", Opening: " \o HeaderGet(g.headers, "Opening", "N/A") \o ".",
       [base |-> "https://www.google.com/maps/search/", query |-> Replace(g.site)] >>

\* mutant: the row is put in front of the rows written so far
writerow_Prepend(rows, row) == << row >> \o rows

\* writer.writerow(row)
writerow(rows, row) == Append(rows, row)

CsvFrame == UNCHANGED << prog, pgn, locals, games_data, slept, exc, nreq >>

InitCsv ==
    /\ prog = "csv"
    /\ pgn \in [tags : HeaderChoices, turn : {"White"}]
    /\ pc = "open"
    /\ i = 0
    /\ dataset = << >>
    /\ NoLocals
    /\ games_data = << >>
    /\ files = << >>
    /\ printed = << >>
    /\ slept = 0
    /\ exc = "none"
    /\ nreq = 0

\* open('chess_games_summary.csv', mode='w'); the header row is written
OpenCsv ==
    /\ prog = "csv"
    /\ pc = "open"
    /\ files' = [x \in {0} |-> writerow(<< >>, HeaderRow)]
    /\ i' = CsvFirst
    /\ pc' = "loop"
    /\ UNCHANGED << dataset, printed >>
    /\ CsvFrame

\* one turn of "for i in range(1, 21)" up to "if os.path.exists(pgn_filename)"
CheckExists ==
    /\ prog = "csv"
    /\ pc = "loop"
    /\ i <= CsvLast
    /\ \E c \in CsvFiles :
          /\ dataset' = Append(dataset, c)
          /\ IF Exists(c) THEN pc' = "try" /\ i' = i
                          ELSE pc' = "loop" /\ i' = i + 1
    /\ UNCHANGED << files, printed >>
    /\ CsvFrame

\* the try block: the row is written, or "except Exception" prints
TryRow ==
    /\ prog = "csv"
    /\ pc = "try"
    /\ IF ReadRaises(Last(dataset))
       THEN /\ printed' = Append(printed, Msg("Error reading", i))
            /\ UNCHANGED files
       ELSE /\ files' = [x \in {0} |-> writerow(files[0], Row(i, Last(dataset)))]
            /\ UNCHANGED printed
    /\ i' = i + 1
    /\ pc' = "loop"
    /\ UNCHANGED dataset
    /\ CsvFrame

\* the range is exhausted, the file is closed
CsvCreated ==
    /\ prog = "csv"
    /\ pc = "loop"
    /\ i > CsvLast
    /\ printed' = Append(printed, Msg("created successfully", 0))
    /\ pc' = "done"
    /\ UNCHANGED << i, dataset, files >>
    /\ CsvFrame

NextCsv == OpenCsv \/ CheckExists \/ TryRow \/ CsvCreated

SpecCsv == InitCsv /\ [][NextCsv]_vars


\* the first cells of the rows a run writes when it has finished the indices
\* 1..n: the header's, then game{k} for every k whose file exists and whose
\* try block did not raise, in increasing k
RECURSIVE ExpectedNames(_)
ExpectedNames(n) ==
    IF n = 0 THEN << "gameNumber" >>
    ELSE ExpectedNames(n - 1) \o
           (IF Exists(dataset[n]) /\ ~ReadRaises(dataset[n])
            THEN << "game" \o ToString(n) >> ELSE << >>)

\* the rows themselves
RECURSIVE ExpectedRows(_)
ExpectedRows(n) ==
    IF n = 0 THEN << >>
    ELSE ExpectedRows(n - 1) \o
           (IF Exists(dataset[n]) /\ ~ReadRaises(dataset[n])
            THEN << Row(n, dataset[n]) >> ELSE << >>)

\* the indices whose loop turn is over
Finished == IF pc = "try" THEN i - 1 ELSE Len(dataset)

\* C20: in the CSV summary generator, a data row for game i is written if and
\* only if game{i}.pgn exists and reading it raises no exception; a missing
\* file or a read error writes no row for its index and does not stop the
\* remaining indices; the header row is written first and the data rows
\* appear in increasing i.
C20_RowPerReadableFile ==
    (prog = "csv" /\ pc /= "open") =>
        /\ pc /= "crashed" /\ exc = "none"
        /\ [n \in DOMAIN files[0] |-> files[0][n][1]] = ExpectedNames(Finished)
        /\ Tail(files[0]) = ExpectedRows(Finished)
        /\ \A k \in 1..Finished :
              Msg("Error reading", k) \in Elems(printed)
                 <=> (Exists(dataset[k]) /\ ReadRaises(dataset[k]))
        /\ pc = "done" =>
              /\ Len(dataset) = CsvLast - CsvFirst + 1
              /\ Last(printed) = Msg("created successfully", 0)

C20_Witness ==
    /\ prog = "csv"
    /\ pc = "done"
    /\ dataset[1].kind = "locked"
    /\ dataset[2].kind = "missing"
    /\ dataset[3].kind = "game"
    /\ dataset[4].kind = "empty"
    /\ Len(files[0]) = 2
    /\ files[0][2][1] = "game3"
    /\ files[0][2][4].query = << "a", "+", "b" >>

====
